---------------------------- MODULE Spec2Model ----------------------------
(***************************************************************************)
(* A model of config_validator (src/src/config_validator/suite.py): the    *)
(* facade ConfigValidationSuite.validate and the schema helpers            *)
(* _validate_schema, _validate_object and _check_type.                     *)
(*                                                                         *)
(* Decoded configuration values are Python objects.  A value is a record   *)
(* with the fields tag (the Python class), n (a number), s (a string),     *)
(* items (the elements of a list) and entries (the key/value pairs of a    *)
(* dict, in insertion order).  A float is held in halves: n = 3 is 1.5.    *)
(***************************************************************************)
EXTENDS Integers, Sequences, FiniteSets, TLC

(* ------------------------------ bounds --------------------------------- *)

\* Longest list among the values.
MaxItems == 2

\* Most keys in a dict among the values.
MaxKeys == 2

(* --------------------------- Python values ----------------------------- *)

PyNone == [tag |-> "NoneType", n |-> 0, s |-> "", items |-> <<>>, entries |-> <<>>]

PyBool(b) == [tag |-> "bool", n |-> IF b THEN 1 ELSE 0, s |-> "", items |-> <<>>, entries |-> <<>>]

PyInt(i) == [tag |-> "int", n |-> i, s |-> "", items |-> <<>>, entries |-> <<>>]

PyFloat(halves) == [tag |-> "float", n |-> halves, s |-> "", items |-> <<>>, entries |-> <<>>]

PyStr(str) == [tag |-> "str", n |-> 0, s |-> str, items |-> <<>>, entries |-> <<>>]

PyList(xs) == [tag |-> "list", n |-> 0, s |-> "", items |-> xs, entries |-> <<>>]

PyDict(es) == [tag |-> "dict", n |-> 0, s |-> "", items |-> <<>>, entries |-> es]

Entry(k, v) == [key |-> k, val |-> v]

\* data.keys(), as a set and in insertion order.
KeySeq(d) == [i \in 1..Len(d.entries) |-> d.entries[i].key]

KeySet(d) == {d.entries[i].key : i \in 1..Len(d.entries)}

\* data[key] for a key of the dict.
DictGet(d, k) == d.entries[CHOOSE i \in 1..Len(d.entries) : d.entries[i].key = k].val

\* isinstance(x, cls) for the classes suite.py tests.  bool is a subclass of
\* int, and str is a Sequence.
IsInstance(x, cls) ==
    CASE cls = "str"      -> x.tag = "str"
      [] cls = "int"      -> x.tag \in {"int", "bool"}
      [] cls = "float"    -> x.tag = "float"
      [] cls = "bool"     -> x.tag = "bool"
      [] cls = "Sequence" -> x.tag \in {"list", "str"}
      [] cls = "Mapping"  -> x.tag = "dict"
      [] cls = "bytes"    -> FALSE
      [] cls = "bytearray" -> FALSE
      [] OTHER            -> FALSE

\* The number a bool, int or float stands for, in halves.
Halves(x) == IF x.tag = "float" THEN x.n ELSE 2 * x.n

IsNumber(x) == x.tag \in {"bool", "int", "float"}

\* Python's ==: numbers compare by value across bool, int and float, lists
\* element by element, dicts by key whatever the insertion order.
RECURSIVE PyEq(_, _)
PyEq(a, b) ==
    IF IsNumber(a) /\ IsNumber(b) THEN Halves(a) = Halves(b)
    ELSE IF a.tag # b.tag THEN FALSE
    ELSE CASE a.tag = "NoneType" -> TRUE
           [] a.tag = "str"  -> a.s = b.s
           [] a.tag = "list" ->
                /\ Len(a.items) = Len(b.items)
                /\ \A i \in 1..Len(a.items) : PyEq(a.items[i], b.items[i])
           [] a.tag = "dict" ->
                /\ KeySet(a) = KeySet(b)
                /\ \A k \in KeySet(a) : PyEq(DictGet(a, k), DictGet(b, k))
           [] OTHER -> FALSE

\* x in xs for a list xs.
PyIn(x, xs) == \E i \in 1..Len(xs) : PyEq(x, xs[i])

\* ord() of the one-character keys of the model.
Ord(k) ==
    CASE k = "a" -> 97
      [] k = "b" -> 98
      [] k = "c" -> 99

\* Insert k into a sorted sequence (str ordering, by code point).
RECURSIVE Insert(_, _)
Insert(k, ks) ==
    IF ks = <<>> THEN <<k>>
    ELSE IF Ord(k) < Ord(Head(ks)) THEN <<k>> \o ks
    ELSE <<Head(ks)>> \o Insert(k, Tail(ks))

\* sorted(ks)
RECURSIVE Sorted(_)
Sorted(ks) == IF ks = <<>> THEN <<>> ELSE Insert(Head(ks), Sorted(Tail(ks)))

\* The concatenation of a sequence of sequences (errors.extend, in order).
RECURSIVE Concat(_)
Concat(ss) == IF ss = <<>> THEN <<>> ELSE Head(ss) \o Concat(Tail(ss))

(* ------------------------------ schemas -------------------------------- *)

\* A schema node is a dict; keys is the set of keywords it holds.  items
\* holds the item schema as a sequence of length 1 (none: length 0), and
\* properties the (key, subschema) pairs in declared order.
Schema(ks, t, e, r, p, a, i) ==
    [keys |-> ks, type |-> t, enum |-> e, required |-> r, properties |-> p,
     additionalProperties |-> a, items |-> i]

Prop(k, sub) == [key |-> k, schema |-> sub]

\* Truthiness of a schema dict (`if schema:`, `if item_schema:`).
Truthy(schema) == schema.keys # {}

(* ------------------------------- errors -------------------------------- *)

\* A path is the sequence of its segments after "$": .key or [index].
KeySeg(k) == [key |-> k, index |-> -1]

IndexSeg(i) == [key |-> "", index |-> i]

\* An error message: the path it is qualified with, its text (kind), and
\* the name (type or key) and value it formats.
Err(p, k, nm, v) == [path |-> p, kind |-> k, name |-> nm, value |-> v, allowed |-> <<>>]

\* "<path>: value <value> is not in allowed set <enum>"
EnumErr(p, v, e) == [path |-> p, kind |-> "not in allowed set", name |-> "", value |-> v, allowed |-> e]

\* What _check_type returns: None, or a message still without its path.
NoMsg == [kind |-> "None", name |-> "", value |-> PyNone]

Msg(k, nm, v) == [kind |-> k, name |-> nm, value |-> v]


(* --------------------------- _check_type ------------------------------- *)

\* The keys of the checkers table.
RecognizedTypes == {"string", "number", "integer", "boolean", "array", "object", "null"}

\* Checker with the `not isinstance(x, bool)` guards left out: what the
\* table would be if bool were not told apart from int.
Checker_BoolIsInt(expected, x) ==
    CASE expected = "string"  -> IsInstance(x, "str")
      [] expected = "number"  -> IsInstance(x, "int") \/ IsInstance(x, "float")
      [] expected = "integer" -> IsInstance(x, "int")
      [] expected = "boolean" -> IsInstance(x, "bool")
      [] expected = "array"   ->
            IsInstance(x, "Sequence")
            /\ ~(IsInstance(x, "str") \/ IsInstance(x, "bytes") \/ IsInstance(x, "bytearray"))
      [] expected = "object"  -> IsInstance(x, "Mapping")
      [] expected = "null"    -> x = PyNone

\* checkers[expected](x)
Checker(expected, x) ==
    CASE expected = "string"  -> IsInstance(x, "str")
      [] expected = "number"  -> (IsInstance(x, "int") \/ IsInstance(x, "float")) /\ ~IsInstance(x, "bool")
      [] expected = "integer" -> IsInstance(x, "int") /\ ~IsInstance(x, "bool")
      [] expected = "boolean" -> IsInstance(x, "bool")
      [] expected = "array"   ->
            IsInstance(x, "Sequence")
            /\ ~(IsInstance(x, "str") \/ IsInstance(x, "bytes") \/ IsInstance(x, "bytearray"))
      [] expected = "object"  -> IsInstance(x, "Mapping")
      [] expected = "null"    -> x = PyNone

CheckType(value, expected) ==
    IF expected \notin RecognizedTypes
    THEN Msg("Unknown schema type", expected, PyNone)
    ELSE IF ~Checker(expected, value)
    THEN Msg("Expected type", expected, value)
    ELSE NoMsg

(* ------------------- _validate_schema, _validate_object ---------------- *)

RECURSIVE ValidateSchema(_, _, _)
RECURSIVE ValidateObject(_, _, _)

\* `if schema_type:` -- schema.get("type") is neither None nor "".
TypeDeclared(schema) == "type" \in schema.keys /\ schema.type # ""

\* schema_type == t
TypeIs(schema, t) == "type" \in schema.keys /\ schema.type = t

\* The enum check of _validate_schema.
EnumErrors(data, schema, path) ==
    IF "enum" \in schema.keys /\ ~PyIn(data, schema.enum)
    THEN <<EnumErr(path, data, schema.enum)>>
    ELSE <<>>

\* The loop over required.
RequiredErrors(data, required, path) ==
    LET missing == SelectSeq(required, LAMBDA key : key \notin KeySet(data))
    IN  [i \in 1..Len(missing) |-> Err(path, "missing required key", missing[i], PyNone)]

\* The loop over properties.items().
PropertyErrors(data, properties, path) ==
    Concat([i \in 1..Len(properties) |->
              IF properties[i].key \in KeySet(data)
              THEN ValidateSchema(DictGet(data, properties[i].key), properties[i].schema,
                                  path \o <<KeySeg(properties[i].key)>>)
              ELSE <<>>])

\* Unexpected without sorted(): the keys in the insertion order of data.
Unexpected_Unsorted(data, properties) ==
    LET allowed_keys == {properties[i].key : i \in 1..Len(properties)}
    IN  SelectSeq(KeySeq(data), LAMBDA k : k \notin allowed_keys)

\* sorted(k for k in data.keys() if k not in allowed_keys)
Unexpected(data, properties) ==
    LET allowed_keys == {properties[i].key : i \in 1..Len(properties)}
    IN  Sorted(SelectSeq(KeySeq(data), LAMBDA k : k \notin allowed_keys))

\* The additionalProperties check.
AdditionalErrors(data, schema, properties, path) ==
    LET additional == IF "additionalProperties" \in schema.keys
                      THEN schema.additionalProperties ELSE TRUE
        unexpected == Unexpected(data, properties)
    IN  IF additional = FALSE
        THEN [i \in 1..Len(unexpected) |-> Err(path, "unexpected key", unexpected[i], PyNone)]
        ELSE <<>>

\* ValidateObject with the additionalProperties check moved before the
\* loop over properties.
ValidateObject_AdditionalFirst(data, schema, path) ==
    LET required   == IF "required" \in schema.keys THEN schema.required ELSE <<>>
        properties == IF "properties" \in schema.keys THEN schema.properties ELSE <<>>
    IN  RequiredErrors(data, required, path)
        \o AdditionalErrors(data, schema, properties, path)
        \o PropertyErrors(data, properties, path)

ValidateObject(data, schema, path) ==
    LET required   == IF "required" \in schema.keys THEN schema.required ELSE <<>>
        properties == IF "properties" \in schema.keys THEN schema.properties ELSE <<>>
    IN  RequiredErrors(data, required, path)
        \o PropertyErrors(data, properties, path)
        \o AdditionalErrors(data, schema, properties, path)

\* The loop over enumerate(data) of an array node.
ItemErrors(data, schema, path) ==
    IF "items" \in schema.keys /\ Truthy(schema.items[1])
    THEN Concat([i \in 1..Len(data.items) |->
                   ValidateSchema(data.items[i], schema.items[1], path \o <<IndexSeg(i - 1)>>)])
    ELSE <<>>

\* ValidateSchema without the `return errors` after a failed type check:
\* the enum and structure checks go on.
ValidateSchema_NoReturn(data, schema, path) ==
    LET type_error == CheckType(data, schema.type)
    IN  (IF TypeDeclared(schema) /\ type_error # NoMsg
         THEN <<Err(path, type_error.kind, type_error.name, type_error.value)>>
         ELSE <<>>)
        \o EnumErrors(data, schema, path)
        \o (IF TypeIs(schema, "object") /\ IsInstance(data, "Mapping")
            THEN ValidateObject(data, schema, path)
            ELSE IF /\ TypeIs(schema, "array")
                    /\ IsInstance(data, "Sequence")
                    /\ ~(IsInstance(data, "str") \/ IsInstance(data, "bytes")
                         \/ IsInstance(data, "bytearray"))
            THEN ItemErrors(data, schema, path)
            ELSE <<>>)

ValidateSchema(data, schema, path) ==
    LET type_error == CheckType(data, schema.type)
    IN  IF TypeDeclared(schema) /\ type_error # NoMsg
        THEN <<Err(path, type_error.kind, type_error.name, type_error.value)>>
        ELSE EnumErrors(data, schema, path)
             \o (IF TypeIs(schema, "object") /\ IsInstance(data, "Mapping")
                 THEN ValidateObject(data, schema, path)
                 ELSE IF /\ TypeIs(schema, "array")
                         /\ IsInstance(data, "Sequence")
                         /\ ~(IsInstance(data, "str") \/ IsInstance(data, "bytes")
                              \/ IsInstance(data, "bytearray"))
                 THEN ItemErrors(data, schema, path)
                 ELSE <<>>)

(* ------------------------------ validate ------------------------------- *)

SUPPORTED_FORMATS == {".json", ".toml", ".ini"}

\* Path(p).suffix for the paths of the model.
Suffix(p) ==
    CASE p = "app.json" -> ".json"
      [] p = "APP.JSON" -> ".JSON"
      [] p = "app.toml" -> ".toml"
      [] p = "app.ini"  -> ".ini"
      [] p = "app.yaml" -> ".yaml"
      [] p = "app"      -> ""

\* str.lower() on those suffixes.
Lower(sfx) == IF sfx = ".JSON" THEN ".json" ELSE sfx

\* issubclass(exc, base) for the exceptions the decoders raise and the two
\* classes validate catches.  configparser.Error derives from Exception.
IsSubclass(exc, base) ==
    CASE exc = "PermissionError"           -> base \in {"PermissionError", "OSError", "Exception"}
      [] exc = "JSONDecodeError"           -> base \in {"JSONDecodeError", "ValueError", "Exception"}
      [] exc = "TOMLDecodeError"           -> base \in {"TOMLDecodeError", "ValueError", "Exception"}
      [] exc = "UnicodeDecodeError"        -> base \in {"UnicodeDecodeError", "UnicodeError", "ValueError", "Exception"}
      [] exc = "MissingSectionHeaderError" ->
            base \in {"MissingSectionHeaderError", "ParsingError", "configparser.Error", "Exception"}
      [] exc = "ValidationError"           -> base \in {"ValidationError", "Exception"}
      [] OTHER -> FALSE

\* What _load_config does: a value returned, or an exception raised.
Returned(v) == [exc |-> "", data |-> v]

Raised(e) == [exc |-> e, data |-> PyNone]

\* Opening, reading and decoding a file.  file.state tells whether the file
\* can be opened, is UTF-8 and is well formed; file.doc is what a well formed
\* file decodes to, and syntax_error what the decoder raises on another.
Decode(file, syntax_error) ==
    IF file.state = "unreadable" THEN Raised("PermissionError")
    ELSE IF file.state = "not utf-8" THEN Raised("UnicodeDecodeError")
    ELSE IF file.state = "malformed" THEN Raised(syntax_error)
    ELSE Returned(file.doc)

\* _load_config on a file of the given suffix.
LoadConfig(sfx, file) ==
    CASE Lower(sfx) = ".json" -> Decode(file, "JSONDecodeError")
      [] Lower(sfx) = ".toml" -> Decode(file, "TOMLDecodeError")
      [] Lower(sfx) = ".ini"  -> Decode(file, "MissingSectionHeaderError")
      [] OTHER                -> Raised("ValidationError")

\* ValidationResult(valid, errors, warnings), or the exception that left
\* validate; calls lists the helpers validate called.
Result(v, es, ws, cs) == [raised |-> "", valid |-> v, errors |-> es, warnings |-> ws, calls |-> cs]

Escaped(e, cs) == [raised |-> e, valid |-> FALSE, errors |-> <<>>, warnings |-> <<>>, calls |-> cs]

\* The messages of validate; they carry no "$" path.
FacadeErr(k, nm) == Err(<<>>, k, nm, PyNone)

\* MissingFile with valid computed from errors and warnings together.
MissingFile_WarningsCount(is_strict, p) ==
    LET msg      == FacadeErr("Config file does not exist", p)
        errors   == IF is_strict THEN <<msg>> ELSE <<>>
        warnings == IF is_strict THEN <<>> ELSE <<msg>>
    IN  Result(errors = <<>> /\ warnings = <<>>, errors, warnings, <<>>)

\* MissingFile with the strict flag not looked at: always an error.
MissingFile_AlwaysError(is_strict, p) ==
    LET msg == FacadeErr("Config file does not exist", p)
    IN  Result(FALSE, <<msg>>, <<>>, <<>>)

\* The branch for a path that does not exist.
MissingFile(is_strict, p) ==
    LET msg      == FacadeErr("Config file does not exist", p)
        errors   == IF is_strict THEN <<msg>> ELSE <<>>
        warnings == IF is_strict THEN <<>> ELSE <<msg>>
    IN  Result(errors = <<>>, errors, warnings, <<>>)

\* The suffix test of validate.
Unsupported(p) == Lower(Suffix(p)) \notin SUPPORTED_FORMATS

\* try: _load_config(path) except (OSError, ValueError)
Caught(exc) == IsSubclass(exc, "OSError") \/ IsSubclass(exc, "ValueError")

\* The rest of validate once the file is loaded.  schema is a sequence:
\* empty for None, else the schema.
AfterLoad(data, schema) ==
    LET run    == schema # <<>> /\ Truthy(schema[1])
        errors == IF run THEN ValidateSchema(data, schema[1], <<>>) ELSE <<>>
    IN  Result(errors = <<>>, errors, <<>>,
               IF run THEN <<"_load_config", "_validate_schema">> ELSE <<"_load_config">>)

\* Validate without the suffix test: every existing file goes to
\* _load_config, whose own refusal of the suffix is a ValidationError.
Validate_NoSuffixTest(is_strict, p, exists, file, schema) ==
    IF ~exists THEN MissingFile(is_strict, p)
    ELSE LET loaded == LoadConfig(Suffix(p), file)
         IN  IF loaded.exc # ""
             THEN IF Caught(loaded.exc)
                  THEN Result(FALSE, <<FacadeErr("Failed to load config", loaded.exc)>>, <<>>,
                              <<"_load_config">>)
                  ELSE Escaped(loaded.exc, <<"_load_config">>)
             ELSE AfterLoad(loaded.data, schema)

\* ConfigValidationSuite(strict=is_strict).validate(p, schema), with the
\* file system as it is at the call: whether p exists, and the file there.
Validate(is_strict, p, exists, file, schema) ==
    IF ~exists THEN MissingFile(is_strict, p)
    ELSE IF Unsupported(p)
    THEN Result(FALSE, <<FacadeErr("Unsupported config format", Suffix(p))>>, <<>>, <<>>)
    ELSE LET loaded == LoadConfig(Suffix(p), file)
         IN  IF loaded.exc # ""
             THEN IF Caught(loaded.exc)
                  THEN Result(FALSE, <<FacadeErr("Failed to load config", loaded.exc)>>, <<>>,
                              <<"_load_config">>)
                  ELSE Escaped(loaded.exc, <<"_load_config">>)
             ELSE AfterLoad(loaded.data, schema)

(* ------------------------------- inputs -------------------------------- *)

Scalars ==
    {PyNone, PyBool(TRUE), PyBool(FALSE), PyInt(0), PyInt(1), PyInt(5),
     PyFloat(2), PyFloat(3), PyStr("x")}

\* The elements of the lists.
ElemValues == {PyInt(1), PyStr("x"), PyBool(TRUE)}

Lists == {PyList(xs) : xs \in UNION {[1..n -> ElemValues] : n \in 0..MaxItems}}

KeyNames == {"a", "b", "c"}

\* The values under the keys of the dicts.
MemberValues == {PyInt(1), PyStr("x"), PyList(<<PyInt(1), PyStr("x"), PyInt(5)>>)}

\* Key/value pairs in every insertion order, no key twice.
EntrySeqs ==
    UNION {{es \in [1..n -> [key : KeyNames, val : MemberValues]] :
              \A i, j \in 1..n : i # j => es[i].key # es[j].key} : n \in 0..MaxKeys}

Dicts == {PyDict(es) : es \in EntrySeqs}

Values == Scalars \cup Lists \cup Dicts

Types == RecognizedTypes \cup {"", "bogus"}

Enums ==
    {<<PyInt(0), PyInt(1)>>, <<PyBool(TRUE), PyStr("x")>>, <<PyList(<<PyInt(1)>>), PyNone>>}

\* A schema holding only type and enum; a keyword is absent when its
\* argument is the empty sequence.
Leaf(t, e) ==
    Schema((IF t = <<>> THEN {} ELSE {"type"}) \cup (IF e = <<>> THEN {} ELSE {"enum"}),
           IF t = <<>> THEN "" ELSE t[1], IF e = <<>> THEN <<>> ELSE e[1], <<>>, <<>>, TRUE, <<>>)

Opt(S) == {<<>>} \cup {<<x>> : x \in S}

LeafSchemas == {Leaf(t, e) : t \in Opt(Types), e \in Opt(Enums)}

ItemSchemas ==
    {Leaf(<<"integer">>, <<>>), Leaf(<<"string">>, <<>>), Leaf(<<"bogus">>, <<>>),
     Leaf(<<>>, <<<<PyInt(0), PyInt(1)>>>>), Leaf(<<>>, <<>>)}

ArraySchema(t, e, i) ==
    [Leaf(t, e) EXCEPT !.keys = @ \cup (IF i = <<>> THEN {} ELSE {"items"}), !.items = i]

ArraySchemas ==
    {ArraySchema(t, e, i) :
        t \in Opt({"array", "string"}), e \in Opt({<<PyList(<<PyInt(1)>>), PyNone>>}),
        i \in Opt(ItemSchemas)}

PropertyLists ==
    {<<>>,
     <<Prop("a", Leaf(<<"string">>, <<>>))>>,
     <<Prop("b", Leaf(<<"integer">>, <<>>)),
       Prop("a", ArraySchema(<<"array">>, <<>>, <<Leaf(<<"integer">>, <<>>)>>))>>}

RequiredLists == {<<"a">>, <<"c", "a">>}

ObjectSchema(t, e, r, p, a) ==
    [Leaf(t, e) EXCEPT
        !.keys = @ \cup (IF r = <<>> THEN {} ELSE {"required"})
                   \cup (IF p = <<>> THEN {} ELSE {"properties"})
                   \cup (IF a = <<>> THEN {} ELSE {"additionalProperties"}),
        !.required = IF r = <<>> THEN <<>> ELSE r[1],
        !.properties = IF p = <<>> THEN <<>> ELSE p[1],
        !.additionalProperties = IF a = <<>> THEN TRUE ELSE a[1]]

ObjectSchemas ==
    {ObjectSchema(t, e, r, p, a) :
        t \in Opt({"object", "array", "bogus"}),
        e \in Opt({<<PyInt(0), PyInt(1)>>}),
        r \in Opt(RequiredLists), p \in Opt(PropertyLists), a \in Opt(BOOLEAN)}

Schemas == LeafSchemas \cup ArraySchemas \cup ObjectSchemas

Paths == {"app.json", "APP.JSON", "app.toml", "app.ini", "app.yaml", "app"}

\* What a well formed file of each format decodes to: JSON any value, TOML a
\* table, INI sections of string options.
Docs(sfx) ==
    CASE Lower(sfx) = ".json" ->
            {PyDict(<<Entry("a", PyStr("x")), Entry("b", PyInt(1))>>), PyList(<<PyInt(1)>>), PyInt(1)}
      [] Lower(sfx) = ".toml" ->
            {PyDict(<<>>), PyDict(<<Entry("a", PyList(<<PyInt(1), PyStr("x")>>))>>)}
      [] Lower(sfx) = ".ini" ->
            {PyDict(<<>>), PyDict(<<Entry("a", PyDict(<<Entry("b", PyStr("x"))>>))>>)}
      [] OTHER -> {PyStr("x")}

NoFile == [state |-> "absent", doc |-> PyNone]

Files(p) ==
    {[state |-> st, doc |-> PyNone] : st \in {"unreadable", "not utf-8", "malformed"}}
    \cup {[state |-> "ok", doc |-> d] : d \in Docs(Suffix(p))}

\* The schema argument of validate: None, {} or a schema.
SchemaArgs ==
    {<<>>, <<Leaf(<<>>, <<>>)>>, <<Leaf(<<"object">>, <<>>)>>, <<Leaf(<<"array">>, <<>>)>>,
     <<Leaf(<<"bogus">>, <<>>)>>,
     <<ObjectSchema(<<"object">>, <<>>, <<<<"c", "a">>>>,
                    <<<<Prop("a", Leaf(<<"string">>, <<>>))>>>>, <<FALSE>>)>>}

(* ---------------------------- state machine ---------------------------- *)

\* A suite is constructed and one call is made on it: validate, or one of
\* the module's helpers on its own.  Calls share no state, so a run is one
\* call.

VARIABLES
    strict,      \* ConfigValidationSuite.strict
    call,        \* the last call: the function and its arguments
    result,      \* what validate returned
    errors,      \* what _validate_schema returned
    type_error   \* what _check_type returned

vars == <<strict, call, result, errors, type_error>>

Call(op, p, exists, file, schema, data, expected) ==
    [op |-> op, path |-> p, exists |-> exists, file |-> file, schema |-> schema,
     data |-> data, expected |-> expected]

NoCall == Call("", "", FALSE, NoFile, <<>>, PyNone, "")

NoResult == Result(TRUE, <<>>, <<>>, <<>>)

Init ==
    /\ strict \in BOOLEAN
    /\ call = NoCall
    /\ result = NoResult
    /\ errors = <<>>
    /\ type_error = NoMsg

\* suite.validate(p, schema)
CallValidate ==
    /\ call = NoCall
    /\ \E p \in Paths, exists \in BOOLEAN, schema \in SchemaArgs :
      \E file \in (IF exists THEN Files(p) ELSE {NoFile}) :
        /\ call' = Call("validate", p, exists, file, schema, PyNone, "")
        /\ result' = Validate(strict, p, exists, file, schema)
        /\ errors' = <<>>
        /\ type_error' = NoMsg
        /\ UNCHANGED strict

\* _validate_schema(data, schema)
CallValidateSchema ==
    /\ call = NoCall
    /\ \E data \in Values, schema \in Schemas :
        /\ call' = Call("_validate_schema", "", FALSE, NoFile, <<schema>>, data, "")
        /\ errors' = ValidateSchema(data, schema, <<>>)
        /\ result' = NoResult
        /\ type_error' = NoMsg
        /\ UNCHANGED strict

\* _check_type(value, expected)
CallCheckType ==
    /\ call = NoCall
    /\ \E value \in Values, expected \in Types \ {""} :
        /\ call' = Call("_check_type", "", FALSE, NoFile, <<>>, value, expected)
        /\ type_error' = CheckType(value, expected)
        /\ result' = NoResult
        /\ errors' = <<>>
        /\ UNCHANGED strict

Next == CallValidate \/ CallValidateSchema \/ CallCheckType

Spec == Init /\ [][Next]_vars

(* ------------------------- validate: the claims ------------------------ *)

\* validate was called and returned a ValidationResult.
Returns == call.op = "validate" /\ result.raised = ""

\* C1: every ValidationResult validate returns, on every return path and for
\* both values of strict, has valid = (errors is empty); warnings do not
\* enter into it.
C1_ValidIffNoErrors == Returns => (result.valid <=> (result.errors = <<>>))

\* A result with a warning that is valid all the same.
C1_Witness == Returns /\ result.warnings # <<>> /\ result.valid /\ result.errors = <<>>

\* C2: for a path that does not exist validate returns at once, calling
\* neither the decoder nor the schema check: one warning, no error and
\* valid when strict is false; one error, no warning and not valid when
\* strict is true; the same message either way.
C2_MissingFile ==
    (call.op = "validate" /\ ~call.exists) =>
        LET msg == [path |-> <<>>, kind |-> "Config file does not exist", name |-> call.path,
                    value |-> PyNone, allowed |-> <<>>]
        IN  /\ result.raised = ""
            /\ result.calls = <<>>
            /\ strict => (result.errors = <<msg>> /\ result.warnings = <<>> /\ ~result.valid)
            /\ ~strict => (result.warnings = <<msg>> /\ result.errors = <<>> /\ result.valid)

\* A missing path given to a strict suite together with a schema.
C2_Witness ==
    /\ call.op = "validate" /\ ~call.exists /\ strict
    /\ call.schema # <<>> /\ Truthy(call.schema[1])
    /\ Len(result.errors) = 1

\* The suffix of the called path is none of the supported ones, whatever
\* its case.
UnsupportedSuffix == Lower(Suffix(call.path)) \notin {".json", ".toml", ".ini"}

OneErrorInvalid == result.raised = "" /\ Len(result.errors) = 1 /\ ~result.valid

\* C3 as stated: for every path with an unsupported extension, and either
\* value of strict, the result has exactly one error and valid = false.
C3_AnyUnsupportedPath == (call.op = "validate" /\ UnsupportedSuffix) => OneErrorInvalid

\* C3, amended: for every path that exists and has an unsupported extension,
\* and either value of strict, the result has exactly one error (the
\* unsupported-format one), no warning and valid = false, and no decoder is
\* called.
C3_UnsupportedExisting ==
    (call.op = "validate" /\ call.exists /\ UnsupportedSuffix) =>
        /\ OneErrorInvalid
        /\ result.errors[1].kind = "Unsupported config format"
        /\ result.errors[1].name = Suffix(call.path)
        /\ result.warnings = <<>>
        /\ result.calls = <<>>

\* An existing .yaml file validated by a suite that is not strict.
C3_Witness ==
    /\ call.op = "validate" /\ call.exists /\ ~strict /\ call.path = "app.yaml"
    /\ OneErrorInvalid

\* C4 as stated: for an existing file with a supported extension every
\* failure of the decoder is caught in validate and becomes one "Failed to
\* load config" error with valid = false; none leaves validate as an
\* exception, and the schema check is not run.
C4_DecodeFailureCaught ==
    (call.op = "validate" /\ call.exists /\ ~UnsupportedSuffix /\ call.file.state # "ok") =>
        /\ OneErrorInvalid
        /\ result.errors[1].kind = "Failed to load config"
        /\ result.calls = <<"_load_config">>

(* ---------------------- schema helpers: the claims --------------------- *)

\* The table of the type check, by the variant of the value: each type name
\* with the one variant (for number, the two) it accepts.
AcceptedVariants(t) ==
    CASE t = "string"  -> {"str"}
      [] t = "number"  -> {"int", "float"}
      [] t = "integer" -> {"int"}
      [] t = "boolean" -> {"bool"}
      [] t = "array"   -> {"list"}
      [] t = "object"  -> {"dict"}
      [] t = "null"    -> {"NoneType"}

Accepts(t, v) == v.tag \in AcceptedVariants(t)

\* _validate_schema was called on its own; its schema argument.
SchemaCalled == call.op = "_validate_schema"

TheSchema == call.schema[1]

\* The errors at the root node with the given text.
RootErrors(kind) == SelectSeq(errors, LAMBDA e : e.path = <<>> /\ e.kind = kind)

\* C5: when the node declares a recognized type and the value is of another
\* variant, the node's errors are exactly the one "Expected type" error at
\* its path; no enum, required, property, additionalProperties or item
\* error comes with it, whatever else the node declares.
C5_TypeMismatchShortCircuit ==
    (/\ SchemaCalled
     /\ "type" \in TheSchema.keys
     /\ TheSchema.type \in RecognizedTypes
     /\ ~Accepts(TheSchema.type, call.data)) =>
        errors = <<[path |-> <<>>, kind |-> "Expected type", name |-> TheSchema.type,
                    value |-> call.data, allowed |-> <<>>]>>

\* A value of the wrong variant for a node that also declares an enum it
\* is not in.
C5_Witness ==
    /\ SchemaCalled
    /\ "type" \in TheSchema.keys /\ TheSchema.type = "string"
    /\ "enum" \in TheSchema.keys /\ TheSchema.enum = <<PyInt(0), PyInt(1)>>
    /\ call.data = PyInt(5)
    /\ Len(errors) = 1

\* C6: _check_type accepts a value for a recognized type exactly when the
\* value's variant is the one the table gives: a bool is neither an integer
\* nor a number, a float no integer, a string no array.
C6_CheckTypeTable ==
    (call.op = "_check_type" /\ call.expected \in RecognizedTypes) =>
        IF Accepts(call.expected, call.data)
        THEN type_error = NoMsg
        ELSE type_error = [kind |-> "Expected type", name |-> call.expected, value |-> call.data]

\* True checked against integer, and refused.
C6_Witness ==
    /\ call.op = "_check_type" /\ call.expected = "integer" /\ call.data = PyBool(TRUE)
    /\ type_error.kind = "Expected type"

\* Equality of values as variants: a bool equals only the same bool; an int
\* and a float are equal when they are the same number; lists and dicts are
\* equal when their members are.
RECURSIVE VariantEq(_, _)
VariantEq(a, b) ==
    IF a.tag = "bool" \/ b.tag = "bool" THEN a.tag = b.tag /\ a.n = b.n
    ELSE IF IsNumber(a) /\ IsNumber(b) THEN Halves(a) = Halves(b)
    ELSE IF a.tag # b.tag THEN FALSE
    ELSE CASE a.tag = "list" ->
                /\ Len(a.items) = Len(b.items)
                /\ \A i \in 1..Len(a.items) : VariantEq(a.items[i], b.items[i])
           [] a.tag = "dict" ->
                /\ KeySet(a) = KeySet(b)
                /\ \A k \in KeySet(a) : VariantEq(DictGet(a, k), DictGet(b, k))
           [] OTHER -> a = b

\* C7 as stated: when the type is absent or its check passed and enum is
\* present, the node gets exactly one enum error if the value equals no
\* member of enum and none if it equals one, a bool being no int.
C7_EnumByVariant ==
    (/\ SchemaCalled
     /\ "enum" \in TheSchema.keys
     /\ \/ "type" \notin TheSchema.keys
        \/ TheSchema.type \in RecognizedTypes /\ Accepts(TheSchema.type, call.data)) =>
        Len(RootErrors("not in allowed set")) =
            IF \E i \in 1..Len(TheSchema.enum) : VariantEq(call.data, TheSchema.enum[i])
            THEN 0 ELSE 1

\* The keys of the "unexpected key" errors of the root node, in order.
UnexpectedReported ==
    LET es == RootErrors("unexpected key") IN [i \in 1..Len(es) |-> es[i].name]

\* C8: at an object node with a dict value, additionalProperties false
\* gives exactly one "unexpected key" error for each key of the value that
\* is no key of properties, in sorted order, and none for the other keys;
\* additionalProperties absent or true gives none.
C8_UnexpectedKeys ==
    (SchemaCalled /\ TypeIs(TheSchema, "object") /\ call.data.tag = "dict") =>
        LET got     == UnexpectedReported
            declared == IF "properties" \in TheSchema.keys
                        THEN {TheSchema.properties[i].key : i \in 1..Len(TheSchema.properties)}
                        ELSE {}
            extra   == {call.data.entries[i].key : i \in 1..Len(call.data.entries)} \ declared
        IN  IF "additionalProperties" \in TheSchema.keys /\ ~TheSchema.additionalProperties
            THEN /\ {got[i] : i \in 1..Len(got)} = extra
                 /\ Len(got) = Cardinality(extra)
                 /\ \A i, j \in 1..Len(got) : i < j => Ord(got[i]) < Ord(got[j])
            ELSE got = <<>>

\* Two undeclared keys inserted in the order c, b and reported as b, c.
C8_Witness ==
    /\ SchemaCalled /\ TypeIs(TheSchema, "object") /\ call.data.tag = "dict"
    /\ KeySeq(call.data) = <<"c", "b">>
    /\ UnexpectedReported = <<"b", "c">>

\* C9 as stated: a declared type string that is none of the seven gives,
\* for every value, exactly the one "Unknown schema type" error of the node.
C9_UnknownType ==
    (SchemaCalled /\ "type" \in TheSchema.keys /\ TheSchema.type \notin RecognizedTypes) =>
        errors = <<[path |-> <<>>, kind |-> "Unknown schema type", name |-> TheSchema.type,
                    value |-> PyNone, allowed |-> <<>>]>>

\* The place of an error in the order of its node: the type-check failure,
\* the enum failure, a missing required key, an error from a property's
\* recursion, an unexpected key, an error from an item's recursion.
Phase(e) ==
    IF e.path = <<>>
    THEN CASE e.kind \in {"Expected type", "Unknown schema type"} -> 0
           [] e.kind = "not in allowed set"   -> 1
           [] e.kind = "missing required key" -> 2
           [] e.kind = "unexpected key"       -> 4
    ELSE IF e.path[1].index = -1 THEN 3 ELSE 5

\* The errors below the segment seg, each with that segment taken off.
Below(errs, seg) ==
    LET sub == SelectSeq(errs, LAMBDA e : e.path # <<>> /\ e.path[1] = seg)
    IN  [i \in 1..Len(sub) |-> [sub[i] EXCEPT !.path = Tail(@)]]

\* The position of key k in the declared properties.
Declared(properties, k) == CHOOSE i \in 1..Len(properties) : properties[i].key = k

\* errs, the errors of a node for the value data and the node schema, are in
\* the stated order, and so are the errors of every node below.
RECURSIVE InOrder(_, _, _)
InOrder(errs, data, schema) ==
    LET required   == IF "required" \in schema.keys THEN schema.required ELSE <<>>
        properties == IF "properties" \in schema.keys THEN schema.properties ELSE <<>>
        names(ph)  == LET es == SelectSeq(errs, LAMBDA e : Phase(e) = ph)
                      IN  [i \in 1..Len(es) |-> es[i].name]
    IN  /\ \A i, j \in 1..Len(errs) : i < j => Phase(errs[i]) <= Phase(errs[j])
        /\ (\E i \in 1..Len(errs) : Phase(errs[i]) = 0) => Len(errs) = 1
        /\ Len(names(1)) <= 1
        /\ names(2) # <<>> =>
              names(2) = SelectSeq(required, LAMBDA k : k \notin KeySet(data))
        /\ \A i, j \in 1..Len(errs) :
              (i < j /\ Phase(errs[i]) = 3 /\ Phase(errs[j]) = 3) =>
                  Declared(properties, errs[i].path[1].key)
                      <= Declared(properties, errs[j].path[1].key)
        /\ \A i, j \in 1..Len(names(4)) : i < j => Ord(names(4)[i]) < Ord(names(4)[j])
        /\ \A i, j \in 1..Len(errs) :
              (i < j /\ Phase(errs[i]) = 5 /\ Phase(errs[j]) = 5) =>
                  /\ 0 <= errs[i].path[1].index
                  /\ errs[i].path[1].index <= errs[j].path[1].index
        /\ \A i \in 1..Len(errs) :
              /\ Phase(errs[i]) = 3 =>
                    InOrder(Below(errs, errs[i].path[1]),
                            DictGet(data, errs[i].path[1].key),
                            properties[Declared(properties, errs[i].path[1].key)].schema)
              /\ Phase(errs[i]) = 5 =>
                    InOrder(Below(errs, errs[i].path[1]),
                            data.items[errs[i].path[1].index + 1],
                            schema.items[1])

\* C10: the errors of a node come in the order: the enum failure, the
\* missing required keys in the order of required, the errors of each
\* present property in the order of properties, the unexpected keys sorted,
\* and for an array the errors of each element by index from 0; a type-check
\* failure is the node's only error.
C10_ErrorOrder == SchemaCalled => InOrder(errors, call.data, TheSchema)

\* One node with an enum failure, a missing key and then the errors of two
\* properties in the order declared (b, a), not the order the value holds
\* them in (a, b); the second is from the items of an array.
C10_Witness ==
    /\ SchemaCalled
    /\ KeySeq(call.data) = <<"a", "b">>
    /\ Len(errors) = 4
    /\ [i \in 1..4 |-> Phase(errors[i])] = <<1, 2, 3, 3>>
    /\ errors[3].path = <<KeySeg("b")>>
    /\ errors[4].path = <<KeySeg("a"), IndexSeg(1)>>

=============================================================================
